---- MODULE Spec2Model ----
(***************************************************************************)
(* Model of faceswap_bento_service.py: the asyncio job runner              *)
(* FaceSwapModel.swap_face gated by the module-level gpu_semaphore, the    *)
(* thread-offloaded RemBGModel.rembg, the four service entry points        *)
(* (face_swap, batch_face_swap, rembg, batch_rembg) that launch them, and  *)
(* the gateway methods faceswap_batch and rembg_batch of AIToolsAPI.       *)
(*                                                                         *)
(* asyncio is cooperative: a coroutine runs without interleaving until it  *)
(* suspends at an await.  Every action below is one such run, from one     *)
(* suspension point of one job (or call) to its next.                      *)
(***************************************************************************)
EXTENDS Naturals, Integers, Sequences, FiniteSets, TLC

\* gpu_semaphore = asyncio.Semaphore(4)
N == 4

\* Workload bounds.  A behaviour serves either a mixed workload (one call
\* to any entry point, or one batch assembled from gateway callers, with
\* any requests of Requests, at most MaxMixed of them, and any fault of the
\* environment) or a load workload (face-swap calls and gateway callers
\* carrying the same well-formed inline request, up to N + Extra jobs, so
\* that more jobs than slots contend for the semaphore).  A failing
\* workload is a load workload in which every facefusion run fails.
Extra == 1
MaxMixed == 2

JobCap == IF N + Extra > MaxMixed THEN N + Extra ELSE MaxMixed
Jobs == 1..JobCap

(***************************************************************************)
(* Data.  Strings received by the service are pairs <<scheme, content>>:   *)
(* base64 text of image bytes, text that base64 rejects, or a URL.         *)
(***************************************************************************)

B64Encode(bytes) == <<"b64", bytes>>
BadPadding == <<"b64-bad", "">>
Url(bytes) == <<"http", bytes>>
None == <<"None", "">>
Unset == <<"unset", "">>

\* data.startswith("http")
StartsWithHttp(data) == data[1] = "http"

\* base64.b64decode(data): raises binascii.Error on incorrect padding
B64DecodeRaises(data) == data[1] # "b64"
B64Decode(data) == data[2]

\* FaceSwapRequest(source_image, target_image)
FaceSwapRequest(s, t) == [source_image |-> s, target_image |-> t]

\* one request for every branch of decode_or_download_image, for the
\* source and for the target
Requests == {FaceSwapRequest(B64Encode("A"), B64Encode("A")),
             FaceSwapRequest(Url("B"), Url("A")),
             FaceSwapRequest(BadPadding, B64Encode("A")),
             FaceSwapRequest(B64Encode("B"), BadPadding)}

RembgInputs == {B64Encode("A"), B64Encode("B"), BadPadding}

\* what session.get(url) can do: a response with a status, or a raised
\* aiohttp.ClientError (connection refused, DNS failure, timeout)
Responses == {"200", "404", "ClientError"}

\* what the facefusion subprocess can do: its return code and whether it
\* wrote the file at output_path
Succeeds == [returncode |-> 0, wrote |-> TRUE]
Fails == [returncode |-> 1, wrote |-> FALSE]
WritesNothing == [returncode |-> 0, wrote |-> FALSE]
FailsAfterWriting == [returncode |-> 1, wrote |-> TRUE]

\* the image facefusion.py writes for a source and a target image
FaceFusion(s, t) ==
  CASE s = "A" /\ t = "A" -> "AA"
    [] s = "A" /\ t = "B" -> "AB"
    [] s = "B" /\ t = "A" -> "BA"
    [] s = "B" /\ t = "B" -> "BB"
    [] OTHER -> "garbage"

\* the image rembg.remove returns
RembgRemove(im) ==
  CASE im = "A" -> "A-cutout"
    [] im = "B" -> "B-cutout"
    [] OTHER -> "garbage"

\* an identifier generator that repeats itself
Uuid4Repeats(draw) == 1
\* str(uuid.uuid4()): the k-th draw; distinct draws give distinct values
Uuid4(draw) == draw

(***************************************************************************)
(* The /tmp namespace: a set of files, at most one per path.               *)
(***************************************************************************)
Path(image_type, uid) == <<image_type, uid>>
File(path, bytes) == [path |-> path, bytes |-> bytes]

\* open(path, "wb") followed by a write of bytes
WriteFile(fs, path, bytes) ==
  {f \in fs : f.path # path} \cup {File(path, bytes)}

\* os.path.exists(path)
Exists(fs, path) == \E f \in fs : f.path = path

\* open(path, "rb").read()
ReadFile(fs, path) == (CHOOSE f \in fs : f.path = path).bytes

VARIABLES
  workload,    \* "mixed", "load" or "failing": the traffic of this behaviour
  calls,       \* the calls received so far, in arrival order
  pc,          \* pc[j]: the await job j is suspended at, or how it ended
  unique_id,   \* unique_id[j]: swap_face's local unique_id (0: none drawn)
  ret,         \* ret[j]: the dict job j handed to its caller
  caught,      \* caught[j]: the exception e swap_face caught and printed
  process,     \* process[j]: the facefusion subprocess job j started
  thread,      \* thread[j]: the worker thread job j started (asyncio.to_thread)
  sem,         \* gpu_semaphore._value
  files,       \* the files under /tmp
  queue        \* one-element batches of gateway callers awaiting dispatch

vars == <<workload, calls, pc, unique_id, ret, caught, process, thread, sem,
          files, queue>>

(***************************************************************************)
(* Calls and their jobs.  A call is one invocation of a service entry      *)
(* point; it owns the consecutive jobs first .. first + Len(inputs) - 1,   *)
(* job first + i - 1 working on inputs[i].  A batch call assembled from    *)
(* the one-element lists of gateway callers has callers = Len(inputs),     *)
(* and delivered[i] is what the gateway method of caller i returned.       *)
(***************************************************************************)
SwapApis == {"face_swap", "batch_face_swap"}
RembgApis == {"rembg", "batch_rembg"}
BatchApis == {"batch_face_swap", "batch_rembg"}

\* traffic = {..., "max_batch_size": 5, ...}
MaxBatchSize == 5

Call(api, inputs, first) ==
  [api |-> api, inputs |-> inputs, first |-> first,
   status |-> "running", result |-> <<>>, callers |-> 0, delivered |-> <<>>]

JobsOf(call) == call.first .. (call.first + Len(call.inputs) - 1)

NextJob(cs) ==
  IF cs = <<>> THEN 1 ELSE cs[Len(cs)].first + Len(cs[Len(cs)].inputs)

CallOf(j) == CHOOSE c \in 1..Len(calls) : j \in JobsOf(calls[c])

Input(j) == calls[CallOf(j)].inputs[j - calls[CallOf(j)].first + 1]

Launched(j) == j < NextJob(calls)

IsSwapJob(j) == Launched(j) /\ calls[CallOf(j)].api \in SwapApis

IsRembgJob(j) == Launched(j) /\ calls[CallOf(j)].api \in RembgApis

\* the coroutine of job j has ended: it returned, raised or was cancelled
Terminal(j) == pc[j] \in {"done", "raised", "cancelled"}

\* face_swap and rembg await their one job and return its dict in the same
\* run of the coroutine: the call returns when the job does (the dict is
\* kept as a list of one).  A batch call returns in a step of its own.
HandlerReturns(cs, c, pcs, rets) ==
  IF cs[c].api \notin BatchApis /\ pcs[cs[c].first] = "done"
  THEN [cs EXCEPT ![c].status = "returned",
                  ![c].result = <<rets[cs[c].first]>>]
  ELSE cs

\* a dict with the single key "image" or "error"
ImageDict(value) == <<"image", value>>
ErrorDict == <<"error", <<"str", "Failed">>>>

(***************************************************************************)
(* FaceSwapModel.decode_or_download_image                                  *)
(***************************************************************************)
\* the else branch: open(file_path, "wb") creates the file, then
\* f.write(base64.b64decode(data)) either raises or fills it
DecodeToFile(fs, data, uid, image_type) ==
  IF B64DecodeRaises(data)
  THEN [raised |-> "binascii.Error",
        files |-> WriteFile(fs, Path(image_type, uid), "")]
  ELSE [raised |-> "none",
        files |-> WriteFile(fs, Path(image_type, uid), B64Decode(data))]

\* the http branch, once session.get has answered with response (or raised)
DownloadToFile(fs, data, uid, image_type, response) ==
  IF response = "ClientError" THEN [raised |-> "ClientError", files |-> fs]
  ELSE IF response # "200" THEN [raised |-> "ValueError", files |-> fs]
  ELSE [raised |-> "none",
        files |-> WriteFile(fs, Path(image_type, uid), data[2])]

(***************************************************************************)
(* FaceSwapModel.swap_face, cut at its awaits.  Each operator runs the     *)
(* coroutine from one point to its next suspension and yields the job's    *)
(* new position, the value returned (if it returned) and the files.        *)
(***************************************************************************)
Suspended(at, fs) ==
  [pc |-> at, ret |-> Unset, caught |-> "none", files |-> fs]

\* swap_face returns img_base64; process_one / face_swap wrap it:
\* return {"image": img_base64}
Returned(img_base64, fs) ==
  [pc |-> "done", ret |-> ImageDict(img_base64), caught |-> "none",
   files |-> fs]

\* an exception that is logged while the job carries on to the semaphore
CaughtGoesOn(e, fs) ==
  [pc |-> "sem_acquire", ret |-> Unset, caught |-> e, files |-> fs]

\* a swap_face without the except clause: e leaves the coroutine
CaughtEscapes(e, fs) ==
  [pc |-> "raised", ret |-> Unset, caught |-> e, files |-> fs]

\* except Exception as e: print(...); return None
Caught(e, fs) ==
  [pc |-> "done", ret |-> ImageDict(None), caught |-> e, files |-> fs]

\* async with gpu_semaphore: the job queues for a slot
EnterSemaphore(fs) == Suspended("sem_acquire", fs)

\* tgt_path = await self.decode_or_download_image(input.target_image, ...)
SwapFromTarget(fs, input, uid) ==
  IF StartsWithHttp(input.target_image)
  THEN Suspended("fetch_target", fs)
  ELSE LET d == DecodeToFile(fs, input.target_image, uid, "target")
       IN  IF d.raised # "none" THEN Caught(d.raised, d.files)
           ELSE EnterSemaphore(d.files)

\* src_path = await self.decode_or_download_image(input.source_image, ...)
SwapFromSource(fs, input, uid) ==
  IF StartsWithHttp(input.source_image)
  THEN Suspended("fetch_source", fs)
  ELSE LET d == DecodeToFile(fs, input.source_image, uid, "source")
       IN  IF d.raised # "none" THEN Caught(d.raised, d.files)
           ELSE SwapFromTarget(d.files, input, uid)

\* the same without the check of process.returncode
SwapIgnoresReturncode(fs, uid, returncode, readable) ==
  IF ~Exists(fs, Path("output", uid)) THEN Returned(None, fs)
  ELSE IF ~readable THEN Caught("OSError", fs)
  ELSE Returned(B64Encode(ReadFile(fs, Path("output", uid))), fs)

\* the same with a failed run sent back to queue for another slot
SwapRetriesFailedRun(fs, uid, returncode, readable) ==
  IF returncode # 0 THEN Suspended("sem_acquire", fs)
  ELSE IF ~Exists(fs, Path("output", uid)) THEN Returned(None, fs)
  ELSE IF ~readable THEN Caught("OSError", fs)
  ELSE Returned(B64Encode(ReadFile(fs, Path("output", uid))), fs)

\* the rest of the async-with body once process.communicate() has returned
SwapAfterCommunicate(fs, uid, returncode, readable) ==
  IF returncode # 0 THEN Returned(None, fs)
  ELSE IF ~Exists(fs, Path("output", uid)) THEN Returned(None, fs)
  ELSE IF ~readable THEN Caught("OSError", fs)
  ELSE Returned(B64Encode(ReadFile(fs, Path("output", uid))), fs)

\* facefusion.py headless-run -s src_path -t tgt_path -o output_path
RunFaceFusion(fs, uid, outcome) ==
  IF outcome.wrote
  THEN WriteFile(fs, Path("output", uid),
                 FaceFusion(ReadFile(fs, Path("source", uid)),
                            ReadFile(fs, Path("target", uid))))
  ELSE fs

(***************************************************************************)
(* RemBGModel.rembg, run in a worker thread                                *)
(***************************************************************************)
Rembg(input, raises) ==
  IF B64DecodeRaises(input) \/ raises
  THEN ErrorDict
  ELSE ImageDict(B64Encode(RembgRemove(B64Decode(input))))

(***************************************************************************)
(* asyncio.Semaphore                                                       *)
(***************************************************************************)
\* a semaphore that never blocks
LockedNever(value) == FALSE
\* locked(): no slot is free
Locked(value) == value = 0

\* acquire()
AcquireValue(value) == value - 1

\* a release that leaks the slot
ReleaseLeaks(value) == value
\* release()
ReleaseValue(value) == value + 1

\* jobs inside the async-with body
Holders == {j \in Jobs : pc[j] = "communicate"}

\* __aexit__ of the async-with for every job of js that is inside it
RECURSIVE ReleaseAll(_, _)
ReleaseAll(value, js) ==
  IF js = {} THEN value
  ELSE LET j == CHOOSE x \in js : TRUE
       IN  ReleaseAll(ReleaseValue(value), js \ {j})

(***************************************************************************)
(* Workloads                                                               *)
(***************************************************************************)
LoadRequests == {FaceSwapRequest(B64Encode("A"), B64Encode("A"))}

TotalJobs(cs) == NextJob(cs) - 1

MixedWorkload(cs) == Len(cs) <= 1 /\ TotalJobs(cs) <= MaxMixed

\* single face_swap calls, or one batch assembled from gateway callers, or
\* such a batch that can fill every slot followed by single calls
LoadWorkload(cs) ==
  /\ TotalJobs(cs) <= N + Extra
  /\ \A c \in 1..Len(cs) :
       /\ cs[c].api \in SwapApis
       /\ cs[c].api \in BatchApis => cs[c].callers = Len(cs[c].inputs)
       /\ \A i \in 1..Len(cs[c].inputs) : cs[c].inputs[i] \in LoadRequests
       /\ c > 1 => cs[c].api = "face_swap"
  /\ (Len(cs) > 1 /\ cs[1].api = "batch_face_swap") => Len(cs[1].inputs) >= N

Admissible(cs) ==
  IF workload = "mixed" THEN MixedWorkload(cs) ELSE LoadWorkload(cs)

\* how a facefusion run may end, and whether reading its output may raise
ExitOutcomes ==
  CASE workload = "mixed" -> {Succeeds, Fails, WritesNothing, FailsAfterWriting}
    [] workload = "load" -> {Succeeds, Fails}
    [] workload = "failing" -> {Fails}

Readable == IF workload = "mixed" THEN BOOLEAN ELSE {TRUE}

Min(a, b) == IF a < b THEN a ELSE b

\* the request lists a batch call may carry
Batches(items, most) ==
  UNION {[1..k -> items] : k \in 1..Min(most, MaxBatchSize)}

SwapBatches ==
  Batches(Requests, MaxMixed) \cup Batches(LoadRequests, N + Extra)

(***************************************************************************)
(* Initial state: no call received, all N slots free, /tmp empty.          *)
(***************************************************************************)
Idle ==
  /\ calls = <<>>
  /\ pc = [j \in Jobs |-> "idle"]
  /\ unique_id = [j \in Jobs |-> 0]
  /\ ret = [j \in Jobs |-> Unset]
  /\ caught = [j \in Jobs |-> "none"]
  /\ process = [j \in Jobs |-> "none"]
  /\ thread = [j \in Jobs |-> "none"]
  /\ sem = N
  /\ files = {}
  /\ queue = <<>>

Init == workload \in {"mixed", "load"} /\ Idle

\* the same service under traffic whose transformer runs all fail
InitFailing == workload \in {"mixed", "failing"} /\ Idle

(***************************************************************************)
(* Entry points.  Each starts the coroutine of every job of the call, in   *)
(* input order, and each coroutine runs to its first suspension.           *)
(***************************************************************************)
\* swap_face up to its first suspension, for inputs[i..] of the call
RECURSIVE StartSwapJobs(_, _, _)
StartSwapJobs(st, call, i) ==
  IF i > Len(call.inputs) THEN st
  ELSE LET j == call.first + i - 1
           uid == Uuid4(j)
           r == SwapFromSource(st.files, call.inputs[i], uid)
       IN  StartSwapJobs([pc |-> [st.pc EXCEPT ![j] = r.pc],
                          ret |-> [st.ret EXCEPT ![j] = r.ret],
                          caught |-> [st.caught EXCEPT ![j] = r.caught],
                          unique_id |-> [st.unique_id EXCEPT ![j] = uid],
                          files |-> r.files],
                         call, i + 1)

StartSwapCall(call) ==
  /\ Admissible(Append(calls, call))
  /\ LET st == StartSwapJobs([pc |-> pc, ret |-> ret, caught |-> caught,
                              unique_id |-> unique_id, files |-> files],
                             call, 1)
     IN  /\ pc' = st.pc
         /\ ret' = st.ret
         /\ caught' = st.caught
         /\ unique_id' = st.unique_id
         /\ files' = st.files
         /\ calls' = HandlerReturns(Append(calls, call), Len(calls) + 1,
                                    st.pc, st.ret)
  /\ UNCHANGED <<workload, process, thread, sem>>

\* asyncio.to_thread(self.model.rembg, input) for every input of the call
StartRembgCall(call) ==
  /\ Admissible(Append(calls, call))
  /\ pc' = [j \in Jobs |-> IF j \in JobsOf(call) THEN "to_thread" ELSE pc[j]]
  /\ thread' = [j \in Jobs |-> IF j \in JobsOf(call) THEN "running" ELSE thread[j]]
  /\ calls' = Append(calls, call)
  /\ UNCHANGED <<workload, caught, unique_id, ret, process, sem, files>>

\* FaceSwapBatchService.face_swap(input)
face_swap ==
  /\ queue = <<>>
  /\ \E input \in Requests :
       StartSwapCall(Call("face_swap", <<input>>, NextJob(calls)))
  /\ UNCHANGED queue

\* FaceSwapBatchService.batch_face_swap(inputs)
batch_face_swap ==
  /\ queue = <<>>
  /\ \E inputs \in SwapBatches :
       StartSwapCall(Call("batch_face_swap", inputs, NextJob(calls)))
  /\ UNCHANGED queue

\* RemoveBgBatchService.rembg(input)
rembg ==
  /\ queue = <<>>
  /\ \E input \in RembgInputs :
       StartRembgCall(Call("rembg", <<input>>, NextJob(calls)))
  /\ UNCHANGED queue

\* RemoveBgBatchService.batch_rembg(inputs)
batch_rembg ==
  /\ queue = <<>>
  /\ \E inputs \in Batches(RembgInputs, MaxMixed) :
       StartRembgCall(Call("batch_rembg", inputs, NextJob(calls)))
  /\ UNCHANGED queue

(***************************************************************************)
(* AIToolsAPI, the gateway.  faceswap_batch and rembg_batch wrap their one *)
(* request in a one-element list and call the batchable entry point; the   *)
(* lists of callers that arrive within the wait window are assembled, in   *)
(* arrival order and up to max_batch_size of them, into the inputs of one  *)
(* invocation of the entry point, whose result list is cut back into one   *)
(* list per caller.                                                        *)
(***************************************************************************)
\* the inputs of the batch assembled from the one-element lists of q
Assemble(q) == [i \in 1..Len(q) |-> q[i].inputs[1]]

Assembled(api, q) ==
  [Call(api, Assemble(q), NextJob(calls)) EXCEPT !.callers = Len(q)]

\* a caller's one-element list joins those waiting for the entry point
Enqueue(api, inputs) ==
  /\ \A i \in 1..Len(queue) : queue[i].api = api
  /\ Len(queue) < MaxBatchSize
  /\ Admissible(Append(calls, Assembled(api, Append(queue, [api |-> api, inputs |-> inputs]))))
  /\ queue' = Append(queue, [api |-> api, inputs |-> inputs])
  /\ UNCHANGED <<workload, calls, pc, unique_id, ret, caught, process, thread,
                 sem, files>>

\* AIToolsAPI.faceswap_batch(source_image, target_image), up to its await
faceswap_batch ==
  \E request \in Requests :
    Enqueue("batch_face_swap",
            <<FaceSwapRequest(request.source_image, request.target_image)>>)

\* AIToolsAPI.rembg_batch(source_image), up to its await
rembg_batch ==
  \E source_image \in RembgInputs : Enqueue("batch_rembg", <<source_image>>)

\* the wait window closes: the entry point is invoked on the assembled batch
Dispatch ==
  /\ queue # <<>>
  /\ LET k == Min(Len(queue), MaxBatchSize)
         call == Assembled(queue[1].api, SubSeq(queue, 1, k))
     IN  /\ IF call.api = "batch_face_swap"
            THEN StartSwapCall(call)
            ELSE StartRembgCall(call)
         /\ queue' = SubSeq(queue, k + 1, Len(queue))

\* the part of the result list that goes back to caller i
Split(results, i) ==
  IF i <= Len(results) THEN SubSeq(results, i, i) ELSE <<>>

\* return results[0]
Results0(results) ==
  IF results = <<>> THEN <<"raise", "IndexError">> ELSE results[1]

\* what the gateway method of every caller returns
Deliver(results, callers) ==
  [i \in 1..callers |-> Results0(Split(results, i))]

(***************************************************************************)
(* Steps of one swap_face job                                              *)
(***************************************************************************)
Resume(j, r) ==
  /\ pc' = [pc EXCEPT ![j] = r.pc]
  /\ ret' = [ret EXCEPT ![j] = r.ret]
  /\ caught' = [caught EXCEPT ![j] = r.caught]
  /\ files' = r.files
  /\ calls' = HandlerReturns(calls, CallOf(j), pc', ret')

\* session.get(source_image) answers; the coroutine runs on to its next await
FetchSource(j) ==
  /\ pc[j] = "fetch_source"
  /\ \E response \in Responses :
       LET d == DownloadToFile(files, Input(j).source_image, unique_id[j],
                               "source", response)
       IN  Resume(j, IF d.raised # "none" THEN Caught(d.raised, d.files)
                     ELSE SwapFromTarget(d.files, Input(j), unique_id[j]))
  /\ UNCHANGED <<workload, unique_id, process, thread, sem, queue>>

\* session.get(target_image) answers
FetchTarget(j) ==
  /\ pc[j] = "fetch_target"
  /\ \E response \in Responses :
       LET d == DownloadToFile(files, Input(j).target_image, unique_id[j],
                               "target", response)
       IN  Resume(j, IF d.raised # "none" THEN Caught(d.raised, d.files)
                     ELSE EnterSemaphore(d.files))
  /\ UNCHANGED <<workload, unique_id, process, thread, sem, queue>>

\* gpu_semaphore.acquire() succeeds and create_subprocess_exec starts
\* facefusion; the job suspends in process.communicate()
Acquire(j) ==
  /\ pc[j] = "sem_acquire"
  /\ ~Locked(sem)
  /\ sem' = AcquireValue(sem)
  /\ process' = [process EXCEPT ![j] = "running"]
  /\ pc' = [pc EXCEPT ![j] = "communicate"]
  /\ UNCHANGED <<workload, caught, calls, unique_id, ret, thread, files, queue>>

ExitState(outcome) == IF outcome.returncode = 0 THEN "exit0" ELSE "exit1"

\* the subprocess exits, communicate() returns, the body of the async-with
\* runs to its return and __aexit__ releases the slot
Communicate(j) ==
  /\ pc[j] = "communicate"
  /\ \E outcome \in ExitOutcomes, readable \in Readable :
       /\ Resume(j, SwapAfterCommunicate(
                       RunFaceFusion(files, unique_id[j], outcome),
                       unique_id[j], outcome.returncode, readable))
       /\ process' = [process EXCEPT ![j] = ExitState(outcome)]
  /\ sem' = ReleaseValue(sem)
  /\ UNCHANGED <<workload, unique_id, thread, queue>>

(***************************************************************************)
(* Step of one rembg job: the worker thread finishes and the awaiting      *)
(* coroutine receives the dict it returned                                 *)
(***************************************************************************)
ToThread(j) ==
  /\ pc[j] = "to_thread"
  /\ \E raises \in BOOLEAN :
       ret' = [ret EXCEPT ![j] = Rembg(Input(j), raises)]
  /\ pc' = [pc EXCEPT ![j] = "done"]
  /\ thread' = [thread EXCEPT ![j] = "finished"]
  /\ calls' = HandlerReturns(calls, CallOf(j), pc', ret')
  /\ UNCHANGED <<workload, caught, unique_id, process, sem, files, queue>>

(***************************************************************************)
(* The call returns to its caller                                          *)
(***************************************************************************)
\* results listed last job first
GatherReversed(call) ==
  [i \in 1..Len(call.inputs) |-> ret[call.first + Len(call.inputs) - i]]

\* results of the failed jobs left out
GatherSuccesses(call) ==
  SelectSeq([i \in 1..Len(call.inputs) |-> ret[call.first + i - 1]],
            LAMBDA d : d # ImageDict(None) /\ d # ErrorDict)

\* an exception object, as gather lists it for a member that raised
ExceptionObject(e) == <<"exception", e>>

\* asyncio.gather(*[process_one(i) for i in inputs], return_exceptions=True):
\* the value a member returned, or the exception it raised, at its position
Gather(call) ==
  [i \in 1..Len(call.inputs) |->
     IF pc[call.first + i - 1] = "raised"
     THEN ExceptionObject(caught[call.first + i - 1])
     ELSE ret[call.first + i - 1]]

\* a gather that returns as soon as one member has finished
ReturnsOnFirst(c) ==
  /\ calls[c].status = "running"
  /\ calls[c].api \in BatchApis
  /\ \E j \in JobsOf(calls[c]) : pc[j] \in {"done", "raised"}
  /\ calls' = [calls EXCEPT ![c].status = "returned",
                            ![c].result = Gather(calls[c]),
                            ![c].delivered = Deliver(Gather(calls[c]),
                                                     calls[c].callers)]
  /\ UNCHANGED <<workload, caught, pc, unique_id, ret, process, thread, sem, files, queue>>

\* every process_one of a batch call has returned (or raised): the call
\* returns the gathered list
Return(c) ==
  /\ calls[c].status = "running"
  /\ calls[c].api \in BatchApis
  /\ \A j \in JobsOf(calls[c]) : pc[j] \in {"done", "raised"}
  /\ calls' = [calls EXCEPT ![c].status = "returned",
                            ![c].result = Gather(calls[c]),
                            ![c].delivered = Deliver(Gather(calls[c]),
                                                     calls[c].callers)]
  /\ UNCHANGED <<workload, caught, pc, unique_id, ret, process, thread, sem, files, queue>>

(***************************************************************************)
(* Cancellation of a call's task (the 300 s traffic timeout, a client      *)
(* disconnect): CancelledError is thrown into every coroutine of the call  *)
(* that is still suspended.  It is not an Exception, so swap_face does not *)
(* catch it; the async-with releases the slot on the way out.  Neither     *)
(* the subprocess nor the worker thread is stopped.                        *)
(***************************************************************************)
Cancel(c) ==
  /\ calls[c].status = "running"
  /\ LET live == {j \in JobsOf(calls[c]) : ~Terminal(j)}
     IN  /\ pc' = [j \in Jobs |-> IF j \in live THEN "cancelled" ELSE pc[j]]
         /\ sem' = ReleaseAll(sem, live \cap Holders)
  /\ calls' = [calls EXCEPT ![c].status = "cancelled"]
  /\ UNCHANGED <<workload, caught, unique_id, ret, process, thread, files, queue>>

\* a subprocess whose job was cancelled exits on its own
OrphanExit(j) ==
  /\ pc[j] = "cancelled"
  /\ process[j] = "running"
  /\ \E outcome \in ExitOutcomes :
       /\ files' = RunFaceFusion(files, unique_id[j], outcome)
       /\ process' = [process EXCEPT ![j] = ExitState(outcome)]
  /\ UNCHANGED <<workload, caught, calls, pc, unique_id, ret, thread, sem, queue>>

\* a worker thread whose job was cancelled runs rembg to its end
OrphanThread(j) ==
  /\ pc[j] = "cancelled"
  /\ thread[j] = "running"
  /\ thread' = [thread EXCEPT ![j] = "finished"]
  /\ UNCHANGED <<workload, caught, calls, pc, unique_id, ret, process, sem, files, queue>>

Next ==
  \/ face_swap
  \/ batch_face_swap
  \/ rembg
  \/ batch_rembg
  \/ faceswap_batch
  \/ rembg_batch
  \/ Dispatch
  \/ \E j \in Jobs : FetchSource(j)
  \/ \E j \in Jobs : FetchTarget(j)
  \/ \E j \in Jobs : Acquire(j)
  \/ \E j \in Jobs : Communicate(j)
  \/ \E j \in Jobs : ToThread(j)
  \/ \E c \in 1..Len(calls) : Return(c)
  \/ \E c \in 1..Len(calls) : Cancel(c)
  \/ \E j \in Jobs : OrphanExit(j)
  \/ \E j \in Jobs : OrphanThread(j)

Spec == Init /\ [][Next]_vars

\* The event loop runs every coroutine that is ready, every HTTP request
\* ends (aiohttp's default total timeout), and every subprocess and worker
\* thread ends; cancellation and new calls may or may not come.
Fairness ==
  \A j \in Jobs :
    /\ WF_vars(FetchSource(j))
    /\ WF_vars(FetchTarget(j))
    /\ WF_vars(Acquire(j))
    /\ WF_vars(Communicate(j))
    /\ WF_vars(ToThread(j))

FairSpec == InitFailing /\ [][Next]_vars /\ Fairness

(***************************************************************************)
(* Properties                                                              *)
(***************************************************************************)
TypeOK ==
  /\ workload \in {"mixed", "load", "failing"}
  /\ pc \in [Jobs -> {"idle", "fetch_source", "fetch_target", "sem_acquire",
                       "communicate", "to_thread", "done", "raised",
                       "cancelled"}]
  /\ process \in [Jobs -> {"none", "running", "exit0", "exit1"}]
  /\ thread \in [Jobs -> {"none", "running", "finished"}]
  /\ sem \in 0..N
  /\ \A c \in 1..Len(calls) : calls[c].status \in {"running", "returned", "cancelled"}

SwapJobs == {j \in Jobs : IsSwapJob(j)}
BatchCalls == {c \in 1..Len(calls) : calls[c].api \in BatchApis}
HasReturned(c) == calls[c].status = "returned"
Position(j) == j - calls[CallOf(j)].first + 1

\* the image bytes an input string stands for, inline or remote
ImageOf(data) == data[2]

\* the dict a face-swap job returns when nothing goes wrong
OwnOutput(input) ==
  ImageDict(B64Encode(FaceFusion(ImageOf(input.source_image),
                                 ImageOf(input.target_image))))

\* the dicts a job can return for an input
Malformed(data) == ~StartsWithHttp(data) /\ B64DecodeRaises(data)

SwapOutcomes(input) ==
  IF Malformed(input.source_image) \/ Malformed(input.target_image)
  THEN {ImageDict(None)}
  ELSE {ImageDict(None), OwnOutput(input)}

RembgOutcomes(input) ==
  IF B64DecodeRaises(input) THEN {ErrorDict}
  ELSE {ErrorDict, ImageDict(B64Encode(RembgRemove(B64Decode(input))))}

Outcomes(api, input) ==
  IF api \in SwapApis THEN SwapOutcomes(input) ELSE RembgOutcomes(input)

MaterializationErrors == {"binascii.Error", "ValueError", "ClientError"}

\* C1: at any moment at most N jobs are inside the gpu_semaphore section
\* (subprocess started, its output not yet dealt with), whatever mix of
\* face_swap and batch_face_swap calls is in flight.
C1_SlotBound == Cardinality(Holders) <= N

\* all N slots taken while a further job waits for one
C1_Witness ==
  /\ Cardinality(Holders) = N
  /\ \E j \in Jobs : pc[j] = "sem_acquire"
  /\ \E c \in 1..Len(calls) : calls[c].api = "batch_face_swap"
  /\ \E c \in 1..Len(calls) : calls[c].api = "face_swap"

\* C2: in the list a batch call returns, element i is what the job of
\* input i returned, and it is an outcome of input i (its own transformed
\* image, or its own failure), whatever order the jobs finished in.
C2_OrderPreserved ==
  \A c \in BatchCalls :
    HasReturned(c) =>
      \A i \in DOMAIN calls[c].result :
        /\ calls[c].result[i] = ret[calls[c].first + i - 1]
        /\ i \in DOMAIN calls[c].inputs
        /\ calls[c].result[i] \in Outcomes(calls[c].api, calls[c].inputs[i])

\* a returned batch whose two members succeeded with different images
C2_Witness ==
  \E c \in BatchCalls :
    /\ calls[c].api = "batch_face_swap"
    /\ HasReturned(c)
    /\ Len(calls[c].inputs) >= 2
    /\ calls[c].result[1] = OwnOutput(calls[c].inputs[1])
    /\ calls[c].result[2] = OwnOutput(calls[c].inputs[2])
    /\ calls[c].result[1] # calls[c].result[2]

\* C3: the list a batch call returns is as long as the list it was given,
\* whichever of its jobs succeeded or failed.
C3_FullLength ==
  \A c \in BatchCalls :
    HasReturned(c) => Len(calls[c].result) = Len(calls[c].inputs)

\* a returned batch with a job that failed in materialization and a job
\* whose transformer failed
C3_Witness ==
  \E c \in BatchCalls :
    /\ HasReturned(c)
    /\ \E j \in JobsOf(calls[c]) : caught[j] \in MaterializationErrors
    /\ \E j \in JobsOf(calls[c]) : process[j] = "exit1"

\* the job's inputs materialized, its transformer exited 0 and wrote the
\* output, and the output was read back
GoodRun(j) ==
  /\ pc[j] = "done"
  /\ process[j] = "exit0"
  /\ Exists(files, Path("output", unique_id[j]))
  /\ caught[j] = "none"

Siblings(j, k) == j # k /\ Launched(j) /\ Launched(k) /\ CallOf(j) = CallOf(k)

\* a job whose own run is good has returned its own output, and its call,
\* once returned, lists that output at the job's position
GoodRunsReturnOwnOutput ==
  \A j \in Jobs :
    (GoodRun(j) /\ IsSwapJob(j)) =>
      /\ ret[j] = OwnOutput(Input(j))
      /\ HasReturned(CallOf(j)) =>
           calls[CallOf(j)].result[Position(j)] = OwnOutput(Input(j))

\* C4: after every step, a job of a batch whose own run is good has
\* returned its own output, and the batch returns that output at the job's
\* position, whatever happened to its siblings; and a step in which one
\* job fails changes neither the position nor the result of any sibling.
C4_Isolation ==
  [][/\ GoodRunsReturnOwnOutput'
     /\ \A j \in Jobs :
          (/\ pc[j] # "done" /\ pc'[j] = "done"
           /\ ret'[j] \in {ImageDict(None), ErrorDict})
          => \A k \in Jobs :
               Siblings(j, k) => (pc'[k] = pc[k] /\ ret'[k] = ret[k])]_vars

\* a returned batch in which one job failed and its sibling succeeded
C4_Witness ==
  \E j, k \in SwapJobs :
    /\ Siblings(j, k)
    /\ HasReturned(CallOf(j))
    /\ ret[j] = ImageDict(None)
    /\ GoodRun(k)
    /\ calls[CallOf(k)].result[Position(k)] = OwnOutput(Input(k))

InFlight(j) == pc[j] \in {"fetch_source", "fetch_target", "sem_acquire",
                          "communicate", "to_thread"}

\* C5: free slots plus slots held by jobs inside the async-with is always
\* N, and with no job in flight all N slots are free: every acquire is
\* matched by exactly one release, on every way out of the section.
C5_SlotsConserved ==
  /\ sem + Cardinality(Holders) = N
  /\ (\A j \in Jobs : ~InFlight(j)) => sem = N

\* all slots free again after one job left the section on a non-zero exit
\* and another was cancelled inside it
C5_Witness ==
  /\ sem = N
  /\ \A j \in Jobs : ~InFlight(j)
  /\ \E j \in Jobs : pc[j] = "done" /\ process[j] = "exit1"
  /\ \E j \in Jobs : pc[j] = "cancelled" /\ process[j] # "none"

\* C6: under fair scheduling every job that was launched ends, whatever
\* the transformers do: in particular when more than N jobs are submitted
\* and every transformer fails, no job waits for a slot forever.
C6_AllJobsFinish ==
  \A j \in Jobs : (pc[j] # "idle") ~> Terminal(j)

\* more than N jobs have all ended, each after its transformer failed
C6_Witness ==
  /\ workload = "failing"
  /\ \A j \in Jobs : Terminal(j)
  /\ Cardinality({j \in Jobs : pc[j] = "done" /\ process[j] = "exit1"}) > N

\* C7: a job one of whose inputs failed to materialize has returned its
\* failure at once: it is not waiting for a slot, holds none, and never
\* started a transformer.
C7_FailedInputTakesNoSlot ==
  \A j \in SwapJobs :
    caught[j] \in MaterializationErrors =>
      /\ pc[j] = "done"
      /\ ret[j] = ImageDict(None)
      /\ process[j] = "none"

\* one job failed decoding its source, another fetching its target after
\* its source had been written
C7_Witness ==
  \E j, k \in SwapJobs :
    /\ caught[j] = "binascii.Error"
    /\ caught[k] \in {"ValueError", "ClientError"}
    /\ Exists(files, Path("source", unique_id[k]))

Succeeded(j) == pc[j] = "done" /\ ret[j] # ImageDict(None)

Materialized(j, image_type) ==
  /\ Exists(files, Path(image_type, unique_id[j]))
  /\ ReadFile(files, Path(image_type, unique_id[j])) # ""

\* C8 as claimed: a finished job succeeded exactly if both inputs
\* materialized, the transformer exited 0 and its output file exists.
C8_AsClaimed ==
  \A j \in SwapJobs :
    pc[j] = "done" =>
      (Succeeded(j) <=>
         /\ Materialized(j, "source")
         /\ Materialized(j, "target")
         /\ process[j] = "exit0"
         /\ Exists(files, Path("output", unique_id[j])))

\* C8 as amended: a finished job succeeded exactly if both inputs
\* materialized, the transformer exited 0, its output file exists and
\* reading it back raised nothing.
C8_SuccessIff ==
  \A j \in SwapJobs :
    pc[j] = "done" =>
      (Succeeded(j) <=>
         /\ Materialized(j, "source")
         /\ Materialized(j, "target")
         /\ process[j] = "exit0"
         /\ Exists(files, Path("output", unique_id[j]))
         /\ caught[j] = "none")

\* one job succeeded, another failed although its transformer exited 0
\* and wrote the output, a third way of failing being a non-zero exit
C8_Witness ==
  \E j, k \in SwapJobs :
    /\ Succeeded(j)
    /\ pc[k] = "done" /\ ~Succeeded(k)
    /\ process[k] = "exit0"
    /\ Exists(files, Path("output", unique_id[k]))

\* C9 as claimed: no finished job hands its caller a bare null payload.
C9_NoBareNull ==
  \A j \in SwapJobs : pc[j] = "done" => ret[j] # ImageDict(None)

\* C10 as claimed: once a job has finished, none of the files it created
\* under /tmp is left.
C10_ResourcesDeleted ==
  \A j \in SwapJobs :
    pc[j] = "done" => \A f \in files : f.path[2] # unique_id[j]

\* the transformer of job j was started
Started(j) == process[j] # "none"

\* the deadline of job j's call passed while the job was inside the
\* async-with, its transformer not having returned
TimedOutExecuting(j) == pc[j] = "cancelled" /\ Started(j)

\* C11 as claimed: a job whose deadline passed while its transformer had
\* not returned has produced an outcome (the failure Timeout), and from
\* then on holds no slot.
C11_TimeoutOutcome ==
  \A j \in SwapJobs :
    TimedOutExecuting(j) => (ret[j] # Unset /\ j \notin Holders)

\* the deadline of job j's call passed while the job was waiting for a
\* slot, every one of the N slots being held by a member of the same call
TimedOutWaiting(j) ==
  /\ pc[j] = "cancelled"
  /\ ~Started(j)
  /\ Materialized(j, "source")
  /\ Materialized(j, "target")
  /\ Cardinality({k \in JobsOf(calls[CallOf(j)]) : TimedOutExecuting(k)}) = N

\* C12 as claimed: a job whose deadline passed while it waited for a slot
\* has ended with the failure Timeout as its outcome, and no transformer
\* was started for it.
C12_WaitingTimeout ==
  \A j \in SwapJobs :
    TimedOutWaiting(j) => (ret[j] # Unset /\ ~Started(j))

\* transformers that are running
RunningProcesses == {j \in Jobs : process[j] = "running"}

\* C13 as claimed: a transformer runs only for a job that holds a slot (a
\* cancelled job's transformer has been terminated), so at most N
\* transformer processes run at any time.
C13_NoOrphanProcess ==
  /\ \A j \in RunningProcesses : j \in Holders
  /\ Cardinality(RunningProcesses) <= N

\* how far swap_face (or process_one of rembg) has got
Stage(at) ==
  CASE at = "idle" -> 0
    [] at = "fetch_source" -> 1
    [] at = "fetch_target" -> 2
    [] at = "sem_acquire" -> 3
    [] at \in {"communicate", "to_thread"} -> 4
    [] OTHER -> 5

\* C14: no step takes a job back: each materialization is attempted once
\* (a job that leaves fetch_source or fetch_target, or has written an
\* input file, never comes back to it), the transformer is started once
\* (a process is started only for a job that never had one), and a job
\* that has ended stays ended with the one outcome it reported.
C14_NoRetry ==
  [][\A j \in Jobs :
       /\ pc'[j] # pc[j] => Stage(pc'[j]) > Stage(pc[j])
       /\ (process'[j] = "running" /\ process[j] # "running") => process[j] = "none"
       /\ ret[j] # Unset => ret'[j] = ret[j]
       /\ Terminal(j) => pc'[j] = pc[j]]_vars

\* every job has ended, one after a failed run of its transformer and one
\* after a failed fetch, each having reported its failure
C14_Witness ==
  /\ calls # <<>>
  /\ \A j \in Jobs : Launched(j) => pc[j] = "done"
  /\ \E j \in SwapJobs : process[j] = "exit1" /\ ret[j] = ImageDict(None)
  /\ \E j \in SwapJobs : caught[j] \in {"ValueError", "ClientError"}
                         /\ ret[j] = ImageDict(None)

ImageTypes == {"source", "target", "output"}

\* the names of the resources of job j: /tmp/{image_type}_{unique_id}.png
ResourceNames(j) == {Path(image_type, unique_id[j]) : image_type \in ImageTypes}

\* C15: the resource names of two distinct jobs are disjoint, also when
\* their inputs are the same; the three names of one job are pairwise
\* distinct; and every file under /tmp carries the name of exactly one job.
C15_DisjointResources ==
  /\ \A j, k \in SwapJobs : j # k => ResourceNames(j) \cap ResourceNames(k) = {}
  /\ \A j \in SwapJobs : Cardinality(ResourceNames(j)) = 3
  /\ \A f \in files :
       Cardinality({j \in SwapJobs : f.path \in ResourceNames(j)}) = 1

\* two jobs given the same request have each written their own source,
\* target and output, with the same bytes under different names
C15_Witness ==
  \E j, k \in SwapJobs :
    /\ j # k
    /\ Input(j) = Input(k)
    /\ \A image_type \in ImageTypes :
         /\ Exists(files, Path(image_type, unique_id[j]))
         /\ Exists(files, Path(image_type, unique_id[k]))
         /\ ReadFile(files, Path(image_type, unique_id[j]))
              = ReadFile(files, Path(image_type, unique_id[k]))

\* batch calls assembled from the one-element lists of gateway callers
AssembledCalls == {c \in BatchCalls : calls[c].callers > 0}

\* C16: when the batch assembled from singleton calls of faceswap_batch or
\* rembg_batch has returned, every caller has been handed one value, the
\* one the job of its own request returned, which is an outcome of its
\* own request, in whatever order the callers arrived and the jobs ended.
C16_OwnOutcome ==
  \A c \in AssembledCalls :
    HasReturned(c) =>
      /\ Len(calls[c].delivered) = calls[c].callers
      /\ \A i \in 1..calls[c].callers :
           /\ calls[c].delivered[i] = ret[calls[c].first + i - 1]
           /\ calls[c].delivered[i] \in Outcomes(calls[c].api, calls[c].inputs[i])

\* two callers with different requests were served by one batch, the first
\* handed its own image and the second its own failure
C16_Witness ==
  \E c \in AssembledCalls :
    /\ calls[c].api = "batch_face_swap"
    /\ HasReturned(c)
    /\ calls[c].callers >= 2
    /\ calls[c].inputs[1] # calls[c].inputs[2]
    /\ calls[c].delivered[1] = OwnOutput(calls[c].inputs[1])
    /\ calls[c].delivered[2] = ImageDict(None)
    /\ OwnOutput(calls[c].inputs[2]) # OwnOutput(calls[c].inputs[1])

\* transformer invocations that are running: facefusion subprocesses and
\* worker threads inside rembg.remove
RunningTransformers ==
  {j \in Jobs : process[j] = "running" \/ thread[j] = "running"}

\* C17 as claimed: every running transformer invocation, of face-swap or
\* of remove-background, belongs to a job that holds a slot of
\* gpu_semaphore, so at most N invocations run at once.
C17_EveryTransformerUnderSlot ==
  /\ \A j \in RunningTransformers : j \in Holders
  /\ sem + Cardinality(RunningTransformers) <= N

\* a dict of the declared shape: {"image": ...} or {"error": ...}
IsOutcome(d) == d[1] \in {"image", "error"}

C19_ReturnsAfterAll ==
  \A c \in BatchCalls :
    HasReturned(c) =>
      \A j \in JobsOf(calls[c]) :
        /\ Terminal(j)
        /\ ~InFlight(j)
        /\ j \notin Holders
        /\ j \notin RunningTransformers

\* a returned batch_face_swap of more than N members, so that a member had
\* to wait for a slot, with members whose transformers ended differently
C19_Witness ==
  \E c \in BatchCalls :
    /\ calls[c].api = "batch_face_swap"
    /\ HasReturned(c)
    /\ Len(calls[c].inputs) > N
    /\ sem = N
    /\ \E j, k \in JobsOf(calls[c]) : process[j] = "exit0" /\ process[k] = "exit1"

====
